---- MODULE Spec2Model ----
(***************************************************************************)
(* The relay handler of the Shopify / ParcelX proxy:                       *)
(*   app.get('/apps/parceltrack', async (req, res) => { ... })             *)
(* One process per inbound request; the upstream (fetch and the reading of *)
(* the response body) is the environment.  A response is recorded as the   *)
(* arguments the handler passes to res.status(...).json(...), an outbound  *)
(* call as the arguments it passes to fetch(...).                          *)
(***************************************************************************)
EXTENDS Integers, Sequences, FiniteSets, TLC

\* Bounds of the model.
NumRequests == 2
MaxIdLen == 2

Requests == 1..NumRequests

(***************************************************************************)
(* JavaScript values.  A string is the sequence of its pieces (characters   *)
(* for the order id, lexemes for the upstream body, whole literals         *)
(* elsewhere), so that concatenation is \o and the empty string is <<>>.   *)
(* A value that may be undefined is a record with a flag.                  *)
(***************************************************************************)
undefined == [set |-> FALSE, value |-> <<>>]
Defined(s) == [set |-> TRUE, value |-> s]

\* !v for a value that is undefined or a string.
Falsy(v) == ~v.set \/ v.value = <<>>

\* JSON values, as JSON.parse builds them and res.json takes them.
JsonString(s) == [t |-> "string", s |-> s]
JsonNumber(n) == [t |-> "number", n |-> n]
JsonLiteral(l) == [t |-> l]
JsonArray(e) == [t |-> "array", e |-> e]
\* An object is its own properties in insertion order: <<key, value>> pairs.
JsonObject(m) == [t |-> "object", m |-> m]

(***************************************************************************)
(* encodeURIComponent, on sequences of characters.  The characters of the  *)
(* model and their UTF-8 percent-escapes; "A" and "-" are unreserved and   *)
(* are kept.                                                               *)
(***************************************************************************)
Chars == {"A", "-", " ", "&", "%"}
Unreserved == {"A", "-"}
Escape == (" " :> <<"%", "2", "0">>) @@ ("&" :> <<"%", "2", "6">>)
             @@ ("%" :> <<"%", "2", "5">>)

\* A bug of the kind encodeURI has: "&" is left as it is.
encodeURI_char(c) == IF c \in Unreserved \/ c = "&" THEN <<c>> ELSE Escape[c]

encodeChar(c) == IF c \in Unreserved THEN <<c>> ELSE Escape[c]

RECURSIVE encodeURIComponent(_)
encodeURIComponent(s) ==
    IF s = <<>> THEN <<>>
    ELSE encodeChar(Head(s)) \o encodeURIComponent(Tail(s))

(***************************************************************************)
(* JSON.parse, on the sequence of the body's lexemes.  A lexeme is a       *)
(* punctuator, a string literal, a number literal, one of null / true /    *)
(* false, or anything else (which no JSON text contains).                  *)
(***************************************************************************)
StringLexemes == ("\"status\"" :> <<"status">>) @@ ("\"delivered\"" :> <<"delivered">>)
                   @@ ("\"error\"" :> <<"error">>) @@ ("\"not found\"" :> <<"not found">>)
NumberLexemes == ("1" :> 1) @@ ("404" :> 404)
LiteralLexemes == {"null", "true", "false"}

\* obj[key] = val on an object's property list: an existing key keeps its place.
RECURSIVE PutProperty(_, _, _)
PutProperty(m, key, val) ==
    IF m = <<>> THEN << <<key, val>> >>
    ELSE IF Head(m)[1] = key THEN << <<key, val>> >> \o Tail(m)
    ELSE <<Head(m)>> \o PutProperty(Tail(m), key, val)

SyntaxError == [ok |-> FALSE, v |-> JsonLiteral("null"), next |-> 0]
Parsed(v, next) == [ok |-> TRUE, v |-> v, next |-> next]

RECURSIVE ParseValue(_, _), ParseMembers(_, _, _), ParseElements(_, _, _)
\* The value that starts at lexeme i.
ParseValue(text, i) ==
    IF i > Len(text) THEN SyntaxError
    ELSE IF text[i] \in DOMAIN StringLexemes
        THEN Parsed(JsonString(StringLexemes[text[i]]), i + 1)
    ELSE IF text[i] \in DOMAIN NumberLexemes
        THEN Parsed(JsonNumber(NumberLexemes[text[i]]), i + 1)
    ELSE IF text[i] \in LiteralLexemes THEN Parsed(JsonLiteral(text[i]), i + 1)
    ELSE IF text[i] = "{"
        THEN IF i + 1 <= Len(text) /\ text[i + 1] = "}"
             THEN Parsed(JsonObject(<<>>), i + 2)
             ELSE ParseMembers(text, i + 1, <<>>)
    ELSE IF text[i] = "["
        THEN IF i + 1 <= Len(text) /\ text[i + 1] = "]"
             THEN Parsed(JsonArray(<<>>), i + 2)
             ELSE ParseElements(text, i + 1, <<>>)
    ELSE SyntaxError

\* string : value, then "," and more members, or "}".
ParseMembers(text, i, m) ==
    IF i + 1 > Len(text) \/ text[i] \notin DOMAIN StringLexemes \/ text[i + 1] # ":"
    THEN SyntaxError
    ELSE LET val == ParseValue(text, i + 2)
             m2 == PutProperty(m, StringLexemes[text[i]], val.v)
         IN  IF ~val.ok \/ val.next > Len(text) THEN SyntaxError
             ELSE IF text[val.next] = "}" THEN Parsed(JsonObject(m2), val.next + 1)
             ELSE IF text[val.next] = "," THEN ParseMembers(text, val.next + 1, m2)
             ELSE SyntaxError

\* value, then "," and more elements, or "]".
ParseElements(text, i, e) ==
    LET val == ParseValue(text, i)
        e2 == Append(e, val.v)
    IN  IF ~val.ok \/ val.next > Len(text) THEN SyntaxError
        ELSE IF text[val.next] = "]" THEN Parsed(JsonArray(e2), val.next + 1)
        ELSE IF text[val.next] = "," THEN ParseElements(text, val.next + 1, e2)
        ELSE SyntaxError

\* JSON.parse(text): one value and nothing after it, or a SyntaxError.
JSONparse(text) ==
    LET val == ParseValue(text, 1)
    IN  IF val.ok /\ val.next = Len(text) + 1 THEN val ELSE SyntaxError

(***************************************************************************)
(* The state.  The two constants of the module are read once from the      *)
(* environment; everything else is per request.                            *)
(***************************************************************************)
VARIABLES
    PARCELX_API_URL_BASE,  \* const: process.env.PARCELX_API_URL_BASE || default
    PARCELX_API_TOKEN,     \* const: process.env.PARCELX_API_TOKEN, may be undefined
    pc,                    \* where each request's handler stands
    orderId,               \* req.query.channel_order_no
    upstream,              \* what the upstream did with the request's fetch
    apiResponse,           \* the handler's apiResponse (its status)
    responseBodyText,      \* the handler's responseBodyText
    responseData,          \* the handler's responseData
    fetchCalls,            \* the calls of fetch(...) made for the request
    sent                   \* the responses sent with res.status(...).json(...)

vars == <<PARCELX_API_URL_BASE, PARCELX_API_TOKEN, pc, orderId, upstream,
          apiResponse, responseBodyText, responseData, fetchCalls, sent>>
config == <<PARCELX_API_URL_BASE, PARCELX_API_TOKEN>>
locals == <<apiResponse, responseBodyText, responseData>>

DEFAULT_URL_BASE == <<"https://app.parcelx.in/api/v1/track_order">>

\* What process.env may hold for a variable: nothing, the empty string, a value.
EnvUrlBases == {undefined, Defined(<<>>), Defined(<<"https://upstream.example/track_order">>)}
EnvTokens == {undefined, Defined(<<>>), Defined(<<"secret-token">>)}

\* a || b
Or(a, b) == IF Falsy(a) THEN b ELSE a.value

\* The inputs of the concurrent specification.
SomeOrderIds == {undefined, Defined(<<>>), Defined(<<"A", " ", "&">>)}
SomeStatuses == {200, 404}
SomeBodies == { <<"{", "\"status\"", ":", "\"delivered\"", "}">>, <<"not", "json">> }

\* The inputs of the one-request specification.
RECURSIVE Strings(_)
Strings(n) ==
    IF n = 0 THEN {<<>>}
    ELSE Strings(n - 1) \cup {Append(s, c) : s \in {x \in Strings(n - 1) : Len(x) = n - 1}, c \in Chars}
AllOrderIds == {undefined} \cup {Defined(s) : s \in Strings(MaxIdLen)}
AllStatuses == {0, 200, 204, 404, 500, 503}
AllBodies ==
    { <<"{", "\"status\"", ":", "\"delivered\"", "}">>,
      <<"{", "\"error\"", ":", "\"not found\"", "}">>,
      <<"{", "\"status\"", ":", "1", ",", "\"status\"", ":", "null", "}">>,
      <<"[", "404", ",", "true", "]">>,
      <<"\"delivered\"">>,
      <<"null">>,
      <<>>,
      <<"not", "json", "at", "all">>,
      <<"<html>">>,
      <<"{", "\"status\"", ":", "\"delivered\"">>,
      <<"{", "}", "trailing">> }

NoFetch == [fetch |-> "none", status |-> 0, text |-> "none", body |-> <<>>]
NoResponse == [set |-> FALSE, status |-> 0]

Init ==
    /\ \E env \in EnvUrlBases : PARCELX_API_URL_BASE = Or(env, DEFAULT_URL_BASE)
    /\ PARCELX_API_TOKEN \in EnvTokens
    /\ pc = [r \in Requests |-> "Idle"]
    /\ orderId = [r \in Requests |-> undefined]
    /\ upstream = [r \in Requests |-> NoFetch]
    /\ apiResponse = [r \in Requests |-> NoResponse]
    /\ responseBodyText = [r \in Requests |-> <<>>]
    /\ responseData = [r \in Requests |-> undefined]
    /\ fetchCalls = [r \in Requests |-> <<>>]
    /\ sent = [r \in Requests |-> <<>>]

(***************************************************************************)
(* The handler, one action per step of                                     *)
(*   Received -> Validated(orderId) -> Validated(credential) ->            *)
(*   UpstreamCalled -> ParsedOK | ParseFailed | TransportFailed ->         *)
(*   Responded                                                             *)
(* The handler waits twice, for fetch(...) and for apiResponse.text():     *)
(* both are settled by the upstream's actions below.                       *)
(***************************************************************************)
Goto(r, to) == pc' = [pc EXCEPT ![r] = to]

\* res.status(status).json(json)
Send(r, status, json) ==
    sent' = [sent EXCEPT ![r] = Append(@, [status |-> status, json |-> json])]

ErrorBody(message) == JsonObject(<< <<<<"error">>, JsonString(message)>> >>)

\* A request reaches the handler: const orderId = req.query.channel_order_no.
Receive(r, ids) ==
    /\ pc[r] = "Idle"
    /\ \E id \in ids : orderId' = [orderId EXCEPT ![r] = id]
    /\ Goto(r, "Received")
    /\ UNCHANGED <<config, upstream, locals, fetchCalls, sent>>

\* A check that takes only a missing parameter for missing, not an empty one.
orderIdMissing_undefinedOnly(r) == ~orderId[r].set

\* !orderId
orderIdMissing(r) == Falsy(orderId[r])

\* A check that takes only an unset token for missing, not an empty one.
tokenMissing_undefinedOnly == ~PARCELX_API_TOKEN.set

\* !PARCELX_API_TOKEN
tokenMissing == Falsy(PARCELX_API_TOKEN)

\* The 400 sent without the return: the handler goes on to the next check.
RejectOrderId_noReturn(r) ==
    /\ pc[r] = "Received"
    /\ orderIdMissing(r)
    /\ Send(r, 400, ErrorBody(<<"Order ID (channel_order_no) is required.">>))
    /\ Goto(r, "ValidatedOrderId")
    /\ UNCHANGED <<config, orderId, upstream, locals, fetchCalls>>

\* if (!orderId) return res.status(400).json(...)
RejectOrderId(r) ==
    /\ pc[r] = "Received"
    /\ orderIdMissing(r)
    /\ Send(r, 400, ErrorBody(<<"Order ID (channel_order_no) is required.">>))
    /\ Goto(r, "Responded")
    /\ UNCHANGED <<config, orderId, upstream, locals, fetchCalls>>

AcceptOrderId(r) ==
    /\ pc[r] = "Received"
    /\ ~orderIdMissing(r)
    /\ Goto(r, "ValidatedOrderId")
    /\ UNCHANGED <<config, orderId, upstream, locals, fetchCalls, sent>>

\* if (!PARCELX_API_TOKEN) return res.status(500).json(...)
RejectCredential(r) ==
    /\ pc[r] = "ValidatedOrderId"
    /\ tokenMissing
    /\ Send(r, 500, ErrorBody(<<"Tracking service API token configuration error on server. Please contact support.">>))
    /\ Goto(r, "Responded")
    /\ UNCHANGED <<config, orderId, upstream, locals, fetchCalls>>

AcceptCredential(r) ==
    /\ pc[r] = "ValidatedOrderId"
    /\ ~tokenMissing
    /\ Goto(r, "ValidatedCredential")
    /\ UNCHANGED <<config, orderId, upstream, locals, fetchCalls, sent>>

\* `${PARCELX_API_URL_BASE}?channel_order_no=${encodeURIComponent(orderId)}`
parcelXApiUrl(r) ==
    PARCELX_API_URL_BASE \o <<"?channel_order_no=">> \o encodeURIComponent(orderId[r].value)

\* The arguments of fetch(parcelXApiUrl, { method, headers }).
FetchArguments(r) ==
    [ url |-> parcelXApiUrl(r),
      method |-> "GET",
      headers |-> ("Content-Type" :> <<"application/json">>)
                    @@ ("Accept" :> <<"application/json">>)
                    @@ ("access-token" :> PARCELX_API_TOKEN.value),
      body |-> undefined ]

\* await fetch(...): the call is made and the handler waits.
CallUpstream(r) ==
    /\ pc[r] = "ValidatedCredential"
    /\ fetchCalls' = [fetchCalls EXCEPT ![r] = Append(@, FetchArguments(r))]
    /\ upstream' = [upstream EXCEPT ![r].fetch = "pending"]
    /\ Goto(r, "UpstreamCalled")
    /\ UNCHANGED <<config, orderId, locals, sent>>

\* apiResponse declared outside the handler: one variable for all requests.
OnFetchResolved_sharedVariable(r) ==
    /\ pc[r] = "UpstreamCalled"
    /\ upstream[r].fetch = "resolved"
    /\ apiResponse' = [q \in Requests |-> [set |-> TRUE, status |-> upstream[r].status]]
    /\ upstream' = [upstream EXCEPT ![r].text = "pending"]
    /\ Goto(r, "AwaitingBody")
    /\ UNCHANGED <<config, orderId, responseBodyText, responseData, fetchCalls, sent>>

\* fetch resolved: apiResponse is there, await apiResponse.text() starts.
OnFetchResolved(r) ==
    /\ pc[r] = "UpstreamCalled"
    /\ upstream[r].fetch = "resolved"
    /\ apiResponse' = [apiResponse EXCEPT ![r] = [set |-> TRUE, status |-> upstream[r].status]]
    /\ upstream' = [upstream EXCEPT ![r].text = "pending"]
    /\ Goto(r, "AwaitingBody")
    /\ UNCHANGED <<config, orderId, responseBodyText, responseData, fetchCalls, sent>>

\* A catch that tries the call again.
OnFetchRejected_retry(r) ==
    /\ pc[r] = "UpstreamCalled"
    /\ upstream[r].fetch = "rejected"
    /\ Goto(r, "ValidatedCredential")
    /\ UNCHANGED <<config, orderId, upstream, locals, fetchCalls, sent>>

\* fetch rejected: the outer catch.
OnFetchRejected(r) ==
    /\ pc[r] = "UpstreamCalled"
    /\ upstream[r].fetch = "rejected"
    /\ Goto(r, "TransportFailed")
    /\ UNCHANGED <<config, orderId, upstream, locals, fetchCalls, sent>>

\* text() resolved: responseData = JSON.parse(responseBodyText), or its catch.
OnTextResolved(r) ==
    /\ pc[r] = "AwaitingBody"
    /\ upstream[r].text = "read"
    /\ responseBodyText' = [responseBodyText EXCEPT ![r] = upstream[r].body]
    /\ LET parsed == JSONparse(upstream[r].body)
       IN  IF parsed.ok
           THEN /\ responseData' = [responseData EXCEPT ![r] = parsed.v]
                /\ Goto(r, "ParsedOK")
           ELSE /\ UNCHANGED responseData
                /\ Goto(r, "ParseFailed")
    /\ UNCHANGED <<config, orderId, upstream, apiResponse, fetchCalls, sent>>

\* A failed read of the body taken for an unparseable body.
OnTextRejected_asParseFailure(r) ==
    /\ pc[r] = "AwaitingBody"
    /\ upstream[r].text = "rejected"
    /\ Goto(r, "ParseFailed")
    /\ UNCHANGED <<config, orderId, upstream, locals, fetchCalls, sent>>

\* text() rejected: the outer catch.
OnTextRejected(r) ==
    /\ pc[r] = "AwaitingBody"
    /\ upstream[r].text = "rejected"
    /\ Goto(r, "TransportFailed")
    /\ UNCHANGED <<config, orderId, upstream, locals, fetchCalls, sent>>

\* A handler that answers every upstream reply with 200.
ForwardedStatus_always200(r) == 200

\* apiResponse.status, as res.status(apiResponse.status) takes it
ForwardedStatus(r) == apiResponse[r].status

\* A handler that answers every unparseable body with 502.
InvalidResponseStatus_always502(r) == 502

\* apiResponse.status || 502
InvalidResponseStatus(r) == IF apiResponse[r].status # 0 THEN apiResponse[r].status ELSE 502

\* return res.status(apiResponse.status).json(responseData)
RespondParsedOK(r) ==
    /\ pc[r] = "ParsedOK"
    /\ Send(r, ForwardedStatus(r), responseData[r])
    /\ Goto(r, "Responded")
    /\ UNCHANGED <<config, orderId, upstream, locals, fetchCalls>>

\* return res.status(apiResponse.status || 502).json({ error: `... Status: ${apiResponse.status}` })
RespondParseFailed(r) ==
    /\ pc[r] = "ParseFailed"
    /\ Send(r, InvalidResponseStatus(r),
            ErrorBody(<<"Received an invalid response from the upstream tracking service. Status: ",
                        ToString(apiResponse[r].status)>>))
    /\ Goto(r, "Responded")
    /\ UNCHANGED <<config, orderId, upstream, locals, fetchCalls>>

\* A catch that logs and throws again: the handler ends without a response.
RespondTransportFailed_rethrow(r) ==
    /\ pc[r] = "TransportFailed"
    /\ Goto(r, "Threw")
    /\ UNCHANGED <<config, orderId, upstream, locals, fetchCalls, sent>>

\* catch (error) { return res.status(503).json(...) }
RespondTransportFailed(r) ==
    /\ pc[r] = "TransportFailed"
    /\ Send(r, 503, ErrorBody(<<"Service Unavailable. Failed to connect to the tracking service via proxy.">>))
    /\ Goto(r, "Responded")
    /\ UNCHANGED <<config, orderId, upstream, locals, fetchCalls>>

(***************************************************************************)
(* The upstream: it answers a pending fetch with a status or fails it, and *)
(* delivers the body to a pending text() or fails it.  It may also do      *)
(* neither: fetch is called without a timeout.                             *)
(***************************************************************************)
FetchResolve(r, statuses) ==
    /\ upstream[r].fetch = "pending"
    /\ \E status \in statuses :
          upstream' = [upstream EXCEPT ![r].fetch = "resolved", ![r].status = status]
    /\ UNCHANGED <<config, pc, orderId, locals, fetchCalls, sent>>

FetchReject(r) ==
    /\ upstream[r].fetch = "pending"
    /\ upstream' = [upstream EXCEPT ![r].fetch = "rejected"]
    /\ UNCHANGED <<config, pc, orderId, locals, fetchCalls, sent>>

TextResolve(r, bodies) ==
    /\ upstream[r].text = "pending"
    /\ \E body \in bodies :
          upstream' = [upstream EXCEPT ![r].text = "read", ![r].body = body]
    /\ UNCHANGED <<config, pc, orderId, locals, fetchCalls, sent>>

TextReject(r) ==
    /\ upstream[r].text = "pending"
    /\ upstream' = [upstream EXCEPT ![r].text = "rejected"]
    /\ UNCHANGED <<config, pc, orderId, locals, fetchCalls, sent>>

\* The steps the handler takes by itself once it can.
Handler(r) ==
    \/ RejectOrderId(r) \/ AcceptOrderId(r)
    \/ RejectCredential(r) \/ AcceptCredential(r)
    \/ CallUpstream(r)
    \/ OnFetchResolved(r) \/ OnFetchRejected(r)
    \/ OnTextResolved(r) \/ OnTextRejected(r)
    \/ RespondParsedOK(r) \/ RespondParseFailed(r) \/ RespondTransportFailed(r)

\* Concurrent requests, a few inputs each.
Next ==
    \E r \in Requests :
        \/ Receive(r, SomeOrderIds)
        \/ Handler(r)
        \/ FetchResolve(r, SomeStatuses) \/ FetchReject(r)
        \/ TextResolve(r, SomeBodies) \/ TextReject(r)

Spec == Init /\ [][Next]_vars

\* One request, every input.
NextOne ==
    \/ Receive(1, AllOrderIds)
    \/ Handler(1)
    \/ FetchResolve(1, AllStatuses) \/ FetchReject(1)
    \/ TextResolve(1, AllBodies) \/ TextReject(1)

SpecOne == Init /\ [][NextOne]_vars

\* The event loop runs a handler's continuation once it can run; nothing
\* makes a request arrive or the upstream reply.
FairSpec == Init /\ [][Next]_vars /\ \A r \in Requests : WF_vars(Handler(r))

(***************************************************************************)
(* The claims.  What a claim expects is written out here on its own: the   *)
(* literal responses, the decoding of a query value, the order of the      *)
(* phases.                                                                 *)
(***************************************************************************)
ErrorResponse(status, message) ==
    [status |-> status, json |-> [t |-> "object", m |-> << <<<<"error">>, [t |-> "string", s |-> message]>> >>]]

OrderIdRequired == ErrorResponse(400, <<"Order ID (channel_order_no) is required.">>)
TokenNotConfigured ==
    ErrorResponse(500, <<"Tracking service API token configuration error on server. Please contact support.">>)
ServiceUnavailable ==
    ErrorResponse(503, <<"Service Unavailable. Failed to connect to the tracking service via proxy.">>)
InvalidUpstream(status, shown) ==
    ErrorResponse(status, <<"Received an invalid response from the upstream tracking service. Status: ", shown>>)

NoOrderId(r) == orderId[r] = undefined \/ orderId[r] = Defined(<<>>)
NoCredential == PARCELX_API_TOKEN = undefined \/ PARCELX_API_TOKEN = Defined(<<>>)
Responded(r) == pc[r] = "Responded"
BodyRead(r) == upstream[r].text = "read"
TransportFailure(r) == upstream[r].fetch = "rejected" \/ upstream[r].text = "rejected"

\* C1: a request whose channel_order_no is absent or empty is answered 400 with
\* the order-id message, the credential configured or not, and no outbound call
\* is made for it.
C1_MissingOrderId ==
    \A r \in Requests :
        (pc[r] # "Idle" /\ NoOrderId(r)) =>
            /\ fetchCalls[r] = <<>>
            /\ upstream[r].fetch = "none"
            /\ pc[r] \in {"Received", "Responded"}
            /\ Responded(r) => sent[r] = <<OrderIdRequired>>

\* C1 witness: an empty channel_order_no answered while no credential is configured.
C1_Witness ==
    \E r \in Requests :
        /\ Responded(r) /\ orderId[r] = Defined(<<>>) /\ PARCELX_API_TOKEN = undefined
        /\ sent[r] = <<OrderIdRequired>>

\* C2 as claimed: every request handled while the credential is unset or empty
\* is answered 500 with the configuration message, and no outbound call is made.
C2_AsClaimed ==
    NoCredential =>
        \A r \in Requests :
            /\ fetchCalls[r] = <<>>
            /\ Responded(r) => sent[r] = <<TokenNotConfigured>>

\* C2 amended: while the credential is unset or empty no outbound call is made,
\* and every request with a non-empty channel_order_no is answered 500 with the
\* configuration message (one without it is answered 400, as C1 says).
C2_Amended ==
    NoCredential =>
        \A r \in Requests :
            /\ fetchCalls[r] = <<>>
            /\ upstream[r].fetch = "none"
            /\ (Responded(r) /\ ~NoOrderId(r)) => sent[r] = <<TokenNotConfigured>>
            /\ (Responded(r) /\ NoOrderId(r)) => sent[r] = <<OrderIdRequired>>

\* C2 witness: an order id given, the credential set to the empty string.
C2_Witness ==
    \E r \in Requests :
        /\ Responded(r) /\ ~NoOrderId(r) /\ PARCELX_API_TOKEN = Defined(<<>>)
        /\ sent[r] = <<TokenNotConfigured>>

\* C3: when the upstream's body parses as JSON the response has the upstream's
\* status, whatever it is, and the parsed value as its body; an upstream 404
\* with {"error":"not found"} is answered 404 with that object.
C3_PassThrough ==
    \A r \in Requests :
        (Responded(r) /\ BodyRead(r) /\ JSONparse(upstream[r].body).ok) =>
            /\ sent[r] = <<[status |-> upstream[r].status, json |-> JSONparse(upstream[r].body).v]>>
            /\ (upstream[r].status = 404
                   /\ upstream[r].body = <<"{", "\"error\"", ":", "\"not found\"", "}">>) =>
                 sent[r] = <<ErrorResponse(404, <<"not found">>)>>

\* C3 witness: the upstream's 404 with {"error":"not found"} has been relayed.
C3_Witness ==
    \E r \in Requests :
        /\ Responded(r) /\ BodyRead(r) /\ upstream[r].status = 404
        /\ upstream[r].body = <<"{", "\"error\"", ":", "\"not found\"", "}">>
        /\ sent[r] = <<ErrorResponse(404, <<"not found">>)>>

C5_TransportFailure ==
    \A r \in Requests :
        /\ (Responded(r) /\ TransportFailure(r)) => sent[r] = <<ServiceUnavailable>>
        /\ pc[r] = "TransportFailed" => (TransportFailure(r) /\ ~BodyRead(r))

\* C5 witness: the upstream answered, the reading of its body failed, 503 was sent.
C5_Witness ==
    \E r \in Requests :
        /\ Responded(r) /\ upstream[r].fetch = "resolved" /\ upstream[r].text = "rejected"
        /\ sent[r] = <<ServiceUnavailable>>

\* The phases in the order the handler may pass through them; the wait for the
\* body belongs to UpstreamCalled.
PhaseRank ==
    ("Idle" :> 0) @@ ("Received" :> 1) @@ ("ValidatedOrderId" :> 2)
      @@ ("ValidatedCredential" :> 3) @@ ("UpstreamCalled" :> 4) @@ ("AwaitingBody" :> 4)
      @@ ("ParsedOK" :> 5) @@ ("ParseFailed" :> 5) @@ ("TransportFailed" :> 5)
      @@ ("Responded" :> 6)
WaitingForUpstream(r) ==
    \/ pc[r] = "UpstreamCalled" /\ upstream[r].fetch = "pending"
    \/ pc[r] = "AwaitingBody" /\ upstream[r].text = "pending"

PassedValidation(r) ==
    /\ ~NoOrderId(r) /\ ~NoCredential
    /\ pc[r] \in {"UpstreamCalled", "AwaitingBody", "ParsedOK", "ParseFailed", "TransportFailed", "Responded"}

\* C7: no request makes more than one outbound call, and a request that has
\* passed both validations has made exactly one, whatever the upstream did.
C7_NoRetry ==
    \A r \in Requests :
        /\ Len(fetchCalls[r]) <= 1
        /\ PassedValidation(r) => Len(fetchCalls[r]) = 1
        /\ fetchCalls[r] # <<>> => PassedValidation(r)

\* C7 witness: one request answered after a failed call and one after the
\* upstream's reply, each after exactly one call.
C7_Witness ==
    \E r \in Requests :
        /\ Responded(r) /\ upstream[r].fetch = "rejected" /\ Len(fetchCalls[r]) = 1
        /\ \E r2 \in Requests : Responded(r2) /\ BodyRead(r2) /\ Len(fetchCalls[r2]) = 1

\* C8 as claimed: a request that has called the upstream is eventually answered,
\* whether the upstream replies or not.
C8_AsClaimed ==
    \A r \in Requests : (pc[r] = "UpstreamCalled") ~> Responded(r)

UpstreamSettled(r) == TransportFailure(r) \/ BodyRead(r)

\* C8 amended: the call has no timeout; a request is answered once the upstream
\* has delivered its body or the call has failed, and while the upstream does
\* neither the handler takes no step.
C8_Amended ==
    /\ \A r \in Requests : UpstreamSettled(r) ~> Responded(r)
    /\ [](\A r \in Requests : WaitingForUpstream(r) => ~ENABLED Handler(r))

\* C8 witness: one request answered after the upstream's reply while another still waits.
C8_Witness ==
    \E r1, r2 \in Requests :
        /\ Responded(r1) /\ UpstreamSettled(r1)
        /\ WaitingForUpstream(r2) /\ sent[r2] = <<>>

Own(r) == <<pc[r], orderId[r], upstream[r], apiResponse[r], responseBodyText[r],
            responseData[r], fetchCalls[r], sent[r]>>

\* C9: two answered requests with the same order id and the same reply of the
\* upstream have the same response; a step changes the state of one request
\* only; and no step changes the credential or the base URL.
C9_Independent ==
    /\ [](\A r1, r2 \in Requests :
            (Responded(r1) /\ Responded(r2) /\ orderId[r1] = orderId[r2]
               /\ upstream[r1] = upstream[r2]) => sent[r1] = sent[r2])
    /\ [][/\ PARCELX_API_TOKEN' = PARCELX_API_TOKEN
           /\ PARCELX_API_URL_BASE' = PARCELX_API_URL_BASE
           /\ \A r1, r2 \in Requests : (Own(r1)' # Own(r1) /\ Own(r2)' # Own(r2)) => r1 = r2]_vars

\* C9 witness: two requests with the same order id, both answered from the same reply.
C9_Witness ==
    \E r1, r2 \in Requests :
        /\ r1 # r2 /\ Responded(r1) /\ Responded(r2)
        /\ orderId[r1] = orderId[r2] /\ upstream[r1] = upstream[r2] /\ BodyRead(r1)
        /\ sent[r1] = sent[r2]

\* decodeURIComponent, for the characters of the model.
Unescape == (<<"2", "0">> :> " ") @@ (<<"2", "6">> :> "&") @@ (<<"2", "5">> :> "%")
RECURSIVE decodeURIComponent(_)
decodeURIComponent(s) ==
    IF s = <<>> THEN <<>>
    ELSE IF Head(s) # "%" THEN <<Head(s)>> \o decodeURIComponent(Tail(s))
    ELSE IF Len(s) >= 3 /\ <<s[2], s[3]>> \in DOMAIN Unescape
        THEN <<Unescape[<<s[2], s[3]>>]>> \o decodeURIComponent(SubSeq(s, 4, Len(s)))
    ELSE <<"URIError">>

QueryValue(url) == SubSeq(url, Len(PARCELX_API_URL_BASE) + 2, Len(url))

\* C10: the outbound call is a GET without a body to the base URL followed by
\* ?channel_order_no= and a value in which no space and no "&" appears, every "%"
\* starts an escape, and whose decoding is the order id; its headers are
\* Content-Type and Accept application/json and access-token, the credential.
C10_OutboundCall ==
    \A r \in Requests : \A i \in 1..Len(fetchCalls[r]) :
        LET call == fetchCalls[r][i] IN
        /\ call.method = "GET"
        /\ call.body = undefined
        /\ DOMAIN call.headers = {"Content-Type", "Accept", "access-token"}
        /\ call.headers["Content-Type"] = <<"application/json">>
        /\ call.headers["Accept"] = <<"application/json">>
        /\ Defined(call.headers["access-token"]) = PARCELX_API_TOKEN
        /\ SubSeq(call.url, 1, Len(PARCELX_API_URL_BASE) + 1)
             = PARCELX_API_URL_BASE \o <<"?channel_order_no=">>
        /\ \A k \in 1..Len(QueryValue(call.url)) : QueryValue(call.url)[k] \notin {" ", "&"}
        /\ Defined(decodeURIComponent(QueryValue(call.url))) = orderId[r]

\* C10 witness: the order id " &" has gone out as %20%26 to the default base URL.
C10_Witness ==
    \E r \in Requests :
        /\ orderId[r] = Defined(<<" ", "&">>)
        /\ Len(fetchCalls[r]) = 1
        /\ fetchCalls[r][1].url = <<"https://app.parcelx.in/api/v1/track_order", "?channel_order_no=",
                                   "%", "2", "0", "%", "2", "6">>

====
